---------------------------- MODULE Spec2Model ----------------------------
(***************************************************************************)
(* A model of the stable-hash crate: the per-type encoders (impls/), the   *)
(* structural address (Blake3SeqNo and FieldAddress), the fast hasher      *)
(* (fast/hasher.rs) and the unordered aggregation (impls/mod.rs).          *)
(*                                                                         *)
(* A hasher that only records is used for the encoders: its state is the   *)
(* sequence of (address, payload) writes made so far.  Both backends are   *)
(* functions of these writes.                                              *)
(***************************************************************************)
EXTENDS Integers, Sequences, FiniteSets, Bags, TLC

VARIABLES
    lhsT, lhs, lhsState, lhsDone,   \* first value hashed: schema, value, hasher, finished
    rhsT, rhs, rhsState, rhsDone    \* second value hashed

encVars == <<lhsT, lhs, lhsState, lhsDone, rhsT, rhs, rhsState, rhsDone>>

VARIABLES
    overflow_checks,    \* the build: TRUE when integer overflow aborts (debug profile)
    hashers,            \* three FastStableHasher, named "a", "b", "c"
    stored,             \* bytes of a persisted hasher (to_bytes)
    panicked,           \* the process has aborted
    base,               \* history: hasher "a" when the present run of mixin/unmix began
    net,                \* history: how often "b" and "c" were mixed in, less unmixed, since
    last,               \* history: the last operation and its argument before the call
    nops                \* number of operations done

fastVars == <<overflow_checks, hashers, stored, panicked, base, net, last, nops>>

VARIABLES
    seq,        \* the Blake3SeqNo operated on: its hash context and its child counter
    path,       \* history: the ordinals fed on the way from root() to seq
    ordinals,   \* history: the ordinals of the children next_child has returned for seq
    called,     \* history: the last call, the address before it and what it returned
    leaves      \* the leaf writes finished: path, payload and the bytes hashed

seqVars == <<seq, path, ordinals, called, leaves>>

vars == <<encVars, fastVars, seqVars>>

\* the parts of the state a specification does not use
IdleEnc ==
    /\ lhsT = <<>> /\ lhs = <<>> /\ lhsState = <<>> /\ lhsDone = FALSE
    /\ rhsT = <<>> /\ rhs = <<>> /\ rhsState = <<>> /\ rhsDone = FALSE

IdleFast ==
    /\ overflow_checks = FALSE /\ hashers = <<>> /\ stored = <<>> /\ panicked = FALSE
    /\ base = <<>> /\ net = <<>> /\ last = <<>> /\ nops = 0

IdleSeq ==
    /\ seq = <<>> /\ path = <<>> /\ ordinals = <<>> /\ called = <<>> /\ leaves = {}

(***************************************************************************)
(* Bounds of the model.                                                    *)
(***************************************************************************)
MaxVecLen == 3      \* longest Vec/slice enumerated
MaxStrLen == 2      \* longest string enumerated
MaxInt == 1         \* integers -MaxInt..MaxInt are enumerated inside composite values
MaxOps == 3         \* operations on the fast hashers in one run
MaxMembers == 3     \* most members of a HashSet or HashMap
MaxSeqOps == 5      \* calls on the Blake3SeqNo in one run
MaxLeaves == 2      \* leaf writes finished in one run

(***************************************************************************)
(* Machine integers.  A u64/usize is four 16-bit limbs, least significant  *)
(* first, so that 64-bit wrap-around is exact.                             *)
(***************************************************************************)
LimbBase == 256 * 256

U64Zero == <<0, 0, 0, 0>>
U64One == <<1, 0, 0, 0>>
U64Max == <<LimbBase - 1, LimbBase - 1, LimbBase - 1, LimbBase - 1>>

\* a small natural number as a u64 (n < 2^31)
U64FromNat(n) == <<n % LimbBase, (n \div LimbBase) % LimbBase, 0, 0>>

\* x + y on u64: the wrapped sum and whether it overflowed
U64Add(x, y) ==
    LET s1 == x[1] + y[1]
        s2 == x[2] + y[2] + (s1 \div LimbBase)
        s3 == x[3] + y[3] + (s2 \div LimbBase)
        s4 == x[4] + y[4] + (s3 \div LimbBase)
    IN  [val |-> <<s1 % LimbBase, s2 % LimbBase, s3 % LimbBase, s4 % LimbBase>>,
         overflow |-> s4 >= LimbBase]

\* x < y on u64
U64Less(x, y) ==
    \E i \in 1..4 : x[i] < y[i] /\ \A j \in (i + 1)..4 : x[j] = y[j]

\* x - y on u64, wrapping
U64WrappingSub(x, y) ==
    LET d1 == x[1] - y[1]
        d2 == x[2] - y[2] - (IF d1 < 0 THEN 1 ELSE 0)
        d3 == x[3] - y[3] - (IF d2 < 0 THEN 1 ELSE 0)
        d4 == x[4] - y[4] - (IF d3 < 0 THEN 1 ELSE 0)
    IN  <<d1 % LimbBase, d2 % LimbBase, d3 % LimbBase, d4 % LimbBase>>

\* u64::to_le_bytes
U64ToLeBytes(x) ==
    <<x[1] % 256, x[1] \div 256, x[2] % 256, x[2] \div 256,
      x[3] % 256, x[3] \div 256, x[4] % 256, x[4] \div 256>>

\* u64::from_le_bytes
U64FromLeBytes(b) ==
    <<b[1] + 256 * b[2], b[3] + 256 * b[4], b[5] + 256 * b[6], b[7] + 256 * b[8]>>

\* x >> 7 on u64
U64Shr7(x) ==
    <<(x[1] \div 128) + 512 * (x[2] % 128),
      (x[2] \div 128) + 512 * (x[3] % 128),
      (x[3] \div 128) + 512 * (x[4] % 128),
      x[4] \div 128>>

\* leb128::write::unsigned: 7 bits a byte, low group first, bit 7 set on
\* every byte but the last
RECURSIVE write_varint(_)
write_varint(x) ==
    LET low == x[1] % 128
        rest == U64Shr7(x)
    IN  IF rest = U64Zero THEN <<low>> ELSE <<low + 128>> \o write_varint(rest)

(***************************************************************************)
(* Structural address.  Blake3SeqNo is the hash context (modelled by the   *)
(* bytes fed into it so far) and the ordinal of the next child.            *)
(***************************************************************************)
root == [hasher |-> <<>>, child |-> U64One]

\* Blake3SeqNo::next_child: the child fed with the current ordinal, and the
\* parent with its ordinal raised by one.  child + 1 aborts on overflow in a
\* build with overflow checks, and wraps to 0 in one without, which
\* NonZeroUsize::new(..).unwrap() aborts on.
next_child(self) ==
    LET sum == U64Add(self.child, U64One)
    IN  [panic |-> sum.overflow \/ sum.val = U64Zero,
         parent |-> [self EXCEPT !.child = sum.val],
         child |-> [hasher |-> self.hasher \o write_varint(self.child),
                    child |-> U64One]]

\* Blake3SeqNo::skip: the ordinal raised by count.  child + count aborts on
\* overflow in a build with overflow checks and wraps in one without;
\* NonZeroUsize::new(..).unwrap() aborts on 0 only.
skip(self, count, checks) ==
    LET sum == U64Add(self.child, count)
    IN  [panic |-> (checks /\ sum.overflow) \/ sum.val = U64Zero,
         self |-> [self EXCEPT !.child = sum.val]]

\* mutant: the payload fed right after the ordinals, without the marker
Blake3SeqNoFinish_NoMarker(self, payload) == self.hasher \o payload

\* Blake3SeqNo::finish: the bytes the hash context has been fed when it is
\* finalized: the ordinals, the marker 0, the payload
Blake3SeqNoFinish(self, payload) == self.hasher \o <<0>> \o payload

\* FieldAddress::child: a nesting along the path, identified by `number`
child(self, number) ==
    [hasher |-> self.hasher \o write_varint(U64FromNat(number)),
     child |-> U64One]

(***************************************************************************)
(* The recording hasher: StableHasher::new and StableHasher::write.  A     *)
(* write is identified by the bytes of the address' hash context; the      *)
(* ordinal counter of the address is dropped (Blake3SeqNo::finish).        *)
(***************************************************************************)
new == <<>>

write(state, field_address, bytes) ==
    Append(state, [addr |-> field_address.hasher, bytes |-> bytes])

(***************************************************************************)
(* Schemas (Rust types) and their values.                                  *)
(*   bool: BOOLEAN;  int: an integer;  str: a sequence of bytes;           *)
(*   opt: <<>> for None, <<v>> for Some(v);  vec: a sequence;              *)
(*   tuple: <<v0, v1>>;  One, Two: the structs of the tests.               *)
(***************************************************************************)
TBool == [k |-> "bool"]
TInt(signed, width) == [k |-> "int", signed |-> signed, width |-> width]
TStr == [k |-> "str"]
TOpt(T) == [k |-> "opt", of |-> T]
TVec(T) == [k |-> "vec", of |-> T, short |-> FALSE]
TShortVec(T) == [k |-> "vec", of |-> T, short |-> TRUE]     \* enumerated to length 2 only
TTuple(T0, T1) == [k |-> "tuple", t0 |-> T0, t1 |-> T1]
TOne(T0) == [k |-> "One", t0 |-> T0]
TTwo(T0, T1) == [k |-> "Two", t0 |-> T0, t1 |-> T1]
\* HashSet<T> and HashMap<K, V>: the value is the sequence of the members in
\* the order the collection iterates them; a member of a map is (key, value)
TSet(T) == [k |-> "set", of |-> T]
TMap(K, V) == [k |-> "map", of |-> TTuple(K, V)]

U8 == TInt(FALSE, 1)
I8 == TInt(TRUE, 1)
U16 == TInt(FALSE, 2)
I16 == TInt(TRUE, 2)
Usize == TInt(FALSE, 8)

RECURSIVE Pow256(_)
Pow256(w) == IF w = 0 THEN 1 ELSE 256 * Pow256(w - 1)

\* the values of an integer type of at most 16 bits
MinOf(T) == IF T.signed THEN -(Pow256(T.width) \div 2) ELSE 0
MaxOf(T) == IF T.signed THEN (Pow256(T.width) \div 2) - 1 ELSE Pow256(T.width) - 1
InRange(T, n) == MinOf(T) <= n /\ n <= MaxOf(T)

\* n.to_le_bytes() for an integer of `width` bytes (two's complement)
RECURSIVE LeBytes(_, _)
LeBytes(n, width) ==
    IF width = 0 THEN <<>> ELSE <<n % 256>> \o LeBytes(n \div 256, width - 1)

to_le_bytes(n, width) ==
    LeBytes(IF n < 0 THEN n + Pow256(width) ELSE n, width)

\* iN::wrapping_abs: the minimum of the type is its own absolute value
wrapping_abs(n, width) ==
    IF n >= 0 THEN n
    ELSE IF n = -(Pow256(width) \div 2) THEN n
    ELSE -n

is_negative(n) == n < 0

\* the little-endian bytes without the high-order zero bytes
RECURSIVE trim_zeros(_)
trim_zeros(bytes) ==
    IF bytes = <<>> THEN <<>>
    ELSE IF bytes[Len(bytes)] = 0 THEN trim_zeros(SubSeq(bytes, 1, Len(bytes) - 1))
    ELSE bytes

(***************************************************************************)
(* The encoders: stable_hash(self, address, state) returns the state.      *)
(***************************************************************************)
\* mutant: the skip of `false` is lost
BoolStableHash_AlwaysWrites(self, sequence_number, state) ==
    write(state, sequence_number, <<>>)

\* mutant: the condition is inverted
BoolStableHash_Inverted(self, sequence_number, state) ==
    IF ~self THEN write(state, sequence_number, <<>>) ELSE state

\* impl StableHash for bool: true writes the empty payload, false nothing
BoolStableHash(self, sequence_number, state) ==
    IF self THEN write(state, sequence_number, <<>>) ELSE state

\* impl StableHash for AsInt: the sign as a bool at a child address, then the
\* trimmed magnitude at the address itself when it is not zero
AsIntStableHash(negative, little_endian, sequence_number, state) ==
    LET nc == next_child(sequence_number)
        s1 == BoolStableHash(negative, nc.child, state)
        canon == trim_zeros(little_endian)
    IN  IF canon # <<>> THEN write(s1, nc.parent, canon) ELSE s1

\* mutant: the signed implementation forgets wrapping_abs
IntStableHash_NoAbs(T, self, sequence_number, state) ==
    AsIntStableHash(T.signed /\ is_negative(self), to_le_bytes(self, T.width),
                    sequence_number, state)

\* impl_int!: the unsigned and the signed implementation
IntStableHash(T, self, sequence_number, state) ==
    IF T.signed
    THEN AsIntStableHash(is_negative(self),
                         to_le_bytes(wrapping_abs(self, T.width), T.width),
                         sequence_number, state)
    ELSE AsIntStableHash(FALSE, to_le_bytes(self, T.width), sequence_number, state)

\* impl StableHash for &str, through AsBytes: the bytes when there are any
StrStableHash(self, sequence_number, state) ==
    IF self # <<>> THEN write(state, sequence_number, self) ELSE state

RECURSIVE StableHash(_, _, _, _)
RECURSIVE SliceItems(_, _, _, _, _)

\* mutant: no flag, the value at the child address
OptionStableHash_NoFlag(T, self, sequence_number, state) ==
    IF self # <<>>
    THEN StableHash(T.of, self[1], next_child(sequence_number).child, state)
    ELSE state

\* impl StableHash for Option<T>: the flag at next_child(), then the value at
\* the (advanced) address of the Option itself
OptionStableHash(T, self, sequence_number, state) ==
    LET nc == next_child(sequence_number)
        s1 == BoolStableHash(self # <<>>, nc.child, state)
    IN  IF self # <<>> THEN StableHash(T.of, self[1], nc.parent, s1) ELSE s1

\* mutant: every item at the address of the slice
SliceItems_SameAddress(T, self, index, field_address, state) ==
    IF index >= Len(self) THEN state
    ELSE SliceItems(T, self, index + 1, field_address,
                    StableHash(T.of, self[index + 1], field_address, state))

\* the loop of impl StableHash for &[T]: item `index` at child(index), index
\* counted from 0
SliceItems(T, self, index, field_address, state) ==
    IF index >= Len(self) THEN state
    ELSE SliceItems(T, self, index + 1, field_address,
                    StableHash(T.of, self[index + 1], child(field_address, index), state))

\* mutant: the length is not written
SliceStableHash_NoLen(T, self, field_address, state) ==
    SliceItems(T, self, 0, field_address, state)

\* impl StableHash for &[T] and Vec<T>: the items, then the length at the
\* address of the slice
SliceStableHash(T, self, field_address, state) ==
    StableHash(Usize, Len(self), field_address,
               SliceItems(T, self, 0, field_address, state))

\* impl_tuple!: each member at the next child, in order
TupleStableHash(T, self, sequence_number, state) ==
    LET nc0 == next_child(sequence_number)
        s0 == StableHash(T.t0, self[1], nc0.child, state)
        nc1 == next_child(nc0.parent)
    IN  StableHash(T.t1, self[2], nc1.child, s0)

\* struct One of the tests: field one at child(0)
OneStableHash(T, self, field_address, state) ==
    StableHash(T.t0, self.one, child(field_address, 0), state)

\* struct Two of the tests: field one at child(0), field two at child(1)
TwoStableHash(T, self, field_address, state) ==
    StableHash(T.t1, self.two, child(field_address, 1),
               StableHash(T.t0, self.one, child(field_address, 0), state))

\* the writes of a hasher as a bag: both backends combine them commutatively
RECURSIVE Writes(_)
Writes(state) ==
    IF state = <<>> THEN EmptyBag
    ELSE Writes(Tail(state)) (+) SetToBag({Head(state)})

\* StableHasher::finish of the recording hasher: the digest stands for the
\* writes accumulated
finish(state) == Writes(state)

\* StableHasher::start_unordered: an empty mixing accumulator
start_unordered(state) == EmptyBag

\* UnorderedAggregator::write: the member is hashed into a fresh hasher at
\* the address given, and the digest of that hasher is mixed in
UnorderedWrite(unordered, T, member, sequence_number) ==
    unordered (+) SetToBag({finish(StableHash(T, member, sequence_number, new))})

\* StableHasher::finish_unordered: the accumulator folded into the outer
\* hasher at the address given
finish_unordered(state, unordered, sequence_number) ==
    Append(state, [addr |-> sequence_number.hasher, bytes |-> <<>>, rollup |-> unordered])

\* mutant: the members written into one shared hasher, so that the fields of
\* different members are no longer related
RECURSIVE UnorderedItems_Unrelated(_, _, _, _)
UnorderedItems_Unrelated(T, items, member_seq_no, unordered) ==
    IF items = <<>> THEN unordered
    ELSE UnorderedItems_Unrelated(T, Tail(items), member_seq_no,
             unordered (+) Writes(StableHash(T.of, Head(items), member_seq_no, new)))

\* the loop of unordered_unique_stable_hash: every member at a clone of the
\* one member address
RECURSIVE UnorderedItems(_, _, _, _)
UnorderedItems(T, items, member_seq_no, unordered) ==
    IF items = <<>> THEN unordered
    ELSE UnorderedItems(T, Tail(items), member_seq_no,
                        UnorderedWrite(unordered, T.of, Head(items), member_seq_no))

\* mutant: every member at a child address of its own
RECURSIVE UnorderedItems_OwnAddress(_, _, _, _)
UnorderedItems_OwnAddress(T, items, member_seq_no, unordered) ==
    IF items = <<>> THEN unordered
    ELSE LET nc == next_child(member_seq_no)
         IN  UnorderedItems_OwnAddress(T, Tail(items), nc.parent,
                 UnorderedWrite(unordered, T.of, Head(items), nc.child))

\* mutant of unordered_unique_stable_hash with that loop
unordered_unique_stable_hash_OwnAddress(T, items, sequence_number, state) ==
    LET rollup == next_child(sequence_number)
        member == next_child(rollup.parent)
        count == next_child(member.parent)
        unordered == UnorderedItems_OwnAddress(T, items, member.child, start_unordered(state))
    IN  StableHash(Usize, Len(items), count.child,
                   finish_unordered(state, unordered, rollup.child))

\* the members of items, each once, in the order of their first occurrence
RECURSIVE Distinct(_)
Distinct(items) ==
    IF items = <<>> THEN <<>>
    ELSE LET init == SubSeq(items, 1, Len(items) - 1)
             final == items[Len(items)]
         IN  IF \E i \in DOMAIN init : init[i] = final
             THEN Distinct(init) ELSE Append(Distinct(init), final)

\* mutant: a member met again is not aggregated and not counted
unordered_unique_stable_hash_AsSet(T, items, sequence_number, state) ==
    LET rollup == next_child(sequence_number)
        member == next_child(rollup.parent)
        count == next_child(member.parent)
        unordered == UnorderedItems(T, Distinct(items), member.child, start_unordered(state))
    IN  StableHash(Usize, Len(Distinct(items)), count.child,
                   finish_unordered(state, unordered, rollup.child))

\* unordered_unique_stable_hash: three child addresses (rollup, member,
\* count), the members, the rollup, then the count as a usize
unordered_unique_stable_hash(T, items, sequence_number, state) ==
    LET rollup == next_child(sequence_number)
        member == next_child(rollup.parent)
        count == next_child(member.parent)
        unordered == UnorderedItems(T, items, member.child, start_unordered(state))
    IN  StableHash(Usize, Len(items), count.child,
                   finish_unordered(state, unordered, rollup.child))

\* StableHash::stable_hash, by the type of self
StableHash(T, self, address, state) ==
    CASE T.k = "bool" -> BoolStableHash(self, address, state)
      [] T.k = "int" -> IntStableHash(T, self, address, state)
      [] T.k = "str" -> StrStableHash(self, address, state)
      [] T.k = "opt" -> OptionStableHash(T, self, address, state)
      [] T.k = "vec" -> SliceStableHash(T, self, address, state)
      [] T.k = "tuple" -> TupleStableHash(T, self, address, state)
      [] T.k = "One" -> OneStableHash(T, self, address, state)
      [] T.k = "Two" -> TwoStableHash(T, self, address, state)
      [] T.k \in {"set", "map"} -> unordered_unique_stable_hash(T, self, address, state)

\* the value of a type that "does not contribute to the hash":
\* None, 0, false, "", vec![], and a tuple or struct of such values
RECURSIVE IsDefault(_, _)
IsDefault(T, v) ==
    CASE T.k = "bool" -> v = FALSE
      [] T.k = "int" -> v = 0
      [] T.k = "str" -> v = <<>>
      [] T.k = "opt" -> v = <<>>
      [] T.k = "vec" -> v = <<>>
      [] T.k \in {"set", "map"} -> v = <<>>
      [] T.k = "tuple" -> IsDefault(T.t0, v[1]) /\ IsDefault(T.t1, v[2])
      [] T.k = "One" -> IsDefault(T.t0, v.one)
      [] T.k = "Two" -> IsDefault(T.t0, v.one) /\ IsDefault(T.t1, v.two)

(***************************************************************************)
(* The values hashed by the model.                                         *)
(***************************************************************************)
StrBytes == {97, 98}     \* "a", "b"

SeqsUpTo(S, n) == UNION {[1..m -> S] : m \in 0..n}

\* the integers tried at top level: around zero and around every edge of
\* the 8-bit and 16-bit types
EdgeInts ==
    (-3..3) \cup (-130..-126) \cup (126..130) \cup (254..258) \cup (-258..-254)
    \cup {-32768, -32767, 32766, 32767, 32768, 65534, 65535}

RECURSIVE ValuesOf(_)
ValuesOf(T) ==
    CASE T.k = "bool" -> BOOLEAN
      [] T.k = "int" -> {n \in -MaxInt..MaxInt : InRange(T, n)}
      [] T.k = "str" -> SeqsUpTo(StrBytes, MaxStrLen)
      [] T.k = "opt" -> {<<>>} \cup {<<v>> : v \in ValuesOf(T.of)}
      [] T.k = "vec" -> SeqsUpTo(ValuesOf(T.of), IF T.short THEN 2 ELSE MaxVecLen)
      [] T.k = "tuple" -> ValuesOf(T.t0) \X ValuesOf(T.t1)
      [] T.k = "One" -> [one : ValuesOf(T.t0)]
      [] T.k = "Two" -> [one : ValuesOf(T.t0), two : ValuesOf(T.t1)]

IntTypes == {U8, I8, U16, I16}

\* the types of a struct field
FieldTypes ==
    {TBool, U8, I16, TStr, TOpt(TBool), TOpt(I8), TVec(TBool), TTuple(TBool, U8)}

\* the schemas two values of which are compared
Schemas ==
    FieldTypes \cup
    {TVec(U8), TShortVec(I8), TVec(TOpt(TBool)), TShortVec(TShortVec(TBool)),
     TOpt(TOpt(TBool)), TOpt(TVec(TBool)), TOpt(TStr), TOpt(TTuple(TBool, TBool)),
     TOpt(TTwo(TBool, TBool)), TTuple(TOpt(TBool), TVec(TBool)),
     TTuple(I8, I8), TTwo(TVec(TBool), TOpt(U8))}

(***************************************************************************)
(* Hashing two values, each from root() into a new hasher                  *)
(* (generic_stable_hash, before finish).                                   *)
(***************************************************************************)
\* two values of one schema
InitSameSchema ==
    \E T \in Schemas :
        /\ lhsT = T /\ rhsT = T
        /\ lhs \in ValuesOf(T) /\ rhs \in ValuesOf(T)

\* Old { a } and New { a, b }
InitAddedField ==
    \E TA \in {TBool, U8, TStr}, TB \in FieldTypes :
        /\ lhsT = TOne(TA) /\ rhsT = TTwo(TA, TB)
        /\ \E a \in ValuesOf(TA), b \in ValuesOf(TB) :
               lhs = [one |-> a] /\ rhs = [one |-> a, two |-> b]

\* one number in two integer types
InitWidth ==
    \E T1 \in IntTypes, T2 \in IntTypes :
        /\ lhsT = T1 /\ rhsT = T2
        /\ \E n \in EdgeInts :
               InRange(T1, n) /\ InRange(T2, n) /\ lhs = n /\ rhs = n

\* one sequence of numbers as Vec of two integer types
InitWidthVec ==
    \E T1 \in IntTypes, T2 \in IntTypes :
        /\ lhsT = TVec(T1) /\ rhsT = TVec(T2)
        /\ \E v \in SeqsUpTo({-128, 0, 1, 127}, 2) :
               /\ \A i \in 1..Len(v) : InRange(T1, v[i]) /\ InRange(T2, v[i])
               /\ lhs = v /\ rhs = v

InitEnc ==
    /\ InitSameSchema \/ InitAddedField \/ InitWidth \/ InitWidthVec
    /\ lhsState = new /\ rhsState = new
    /\ lhsDone = FALSE /\ rhsDone = FALSE
    /\ IdleFast /\ IdleSeq

HashLhs ==
    /\ ~lhsDone
    /\ lhsState' = StableHash(lhsT, lhs, root, lhsState)
    /\ lhsDone' = TRUE
    /\ UNCHANGED <<lhsT, lhs, rhsT, rhs, rhsState, rhsDone>>
    /\ UNCHANGED <<fastVars, seqVars>>

HashRhs ==
    /\ ~rhsDone
    /\ rhsState' = StableHash(rhsT, rhs, root, rhsState)
    /\ rhsDone' = TRUE
    /\ UNCHANGED <<lhsT, lhs, rhsT, rhs, lhsState, lhsDone>>
    /\ UNCHANGED <<fastVars, seqVars>>

NextEnc == HashLhs \/ HashRhs

SpecEnc == InitEnc /\ [][NextEnc]_vars

(***************************************************************************)
(* Hashing a HashSet or HashMap iterated in two orders, and collections    *)
(* one member apart.                                                       *)
(***************************************************************************)
UnorderedSchemas == {TSet(U8), TSet(TOpt(TBool)), TMap(TStr, U8)}

\* the members enumerated
MembersOf(T) ==
    IF T.k = "map" THEN {<<97>>, <<98>>} \X {0, 1, 2}
    ELSE IF T.of.k = "int" THEN {0, 1, 2, 255}
    ELSE ValuesOf(T.of)

Range(s) == {s[i] : i \in DOMAIN s}

SeqToBag(s) == [m \in Range(s) |-> Cardinality({i \in DOMAIN s : s[i] = m})]

\* the orders a collection of these members may be iterated in
Perms(s) == {t \in [DOMAIN s -> Range(s)] : SeqToBag(t) = SeqToBag(s)}

\* s without its i-th member
DropOne(s) == {SubSeq(s, 1, i - 1) \o SubSeq(s, i + 1, Len(s)) : i \in DOMAIN s}

\* s with one member replaced
ReplaceOne(s, M) == {[s EXCEPT ![i] = m] : i \in DOMAIN s, m \in M}

\* a map with the values of two of its members exchanged
SwapValues(s) ==
    {[s EXCEPT ![i] = <<s[i][1], s[j][2]>>, ![j] = <<s[j][1], s[i][2]>>] :
        i \in DOMAIN s, j \in DOMAIN s}

InitUnordered ==
    /\ \E T \in UnorderedSchemas :
           /\ lhsT = T /\ rhsT = T
           /\ lhs \in SeqsUpTo(MembersOf(T), MaxMembers)
           /\ rhs \in Perms(lhs) \cup DropOne(lhs) \cup ReplaceOne(lhs, MembersOf(T))
                        \cup (IF T.k = "map" THEN SwapValues(lhs) ELSE {})
    /\ lhsState = new /\ rhsState = new
    /\ lhsDone = FALSE /\ rhsDone = FALSE
    /\ IdleFast /\ IdleSeq

SpecUnordered == InitUnordered /\ [][NextEnc]_vars

IsPrefix(p, q) == Len(p) <= Len(q) /\ SubSeq(q, 1, Len(p)) = p

(***************************************************************************)
(* Claims about the encoders, under SpecEnc.                               *)
(***************************************************************************)
BothDone == lhsDone /\ rhsDone

\* lhs is Old { a } and rhs is New { a, b } with the same a
AddedField ==
    /\ lhsT.k = "One" /\ rhsT.k = "Two"
    /\ lhsT.t0 = rhsT.t0 /\ lhs.one = rhs.one

\* the address of field two of New: root().child(1)
AddrOfTwo == child(root, 1).hasher

\* C1: a value equal to its type's default (0, false, "", empty Vec, None)
\* makes no write at all, and so Old { a } and New { a, b } with a default b
\* make exactly the same sequence of writes.
C1_DefaultsWriteNothing ==
    /\ (lhsDone /\ IsDefault(lhsT, lhs)) => lhsState = <<>>
    /\ (rhsDone /\ IsDefault(rhsT, rhs)) => rhsState = <<>>
    /\ (BothDone /\ AddedField /\ IsDefault(rhsT.t1, rhs.two)) => lhsState = rhsState

C1_Witness ==
    /\ BothDone /\ AddedField
    /\ rhsT.t1.k = "vec" /\ rhs.two = <<>>
    /\ lhsState # <<>> /\ lhsState = rhsState

\* C2: when the added field b of New { a, b } is not a default, hashing New
\* makes a write at (or below) b's address that hashing Old { a } does not
\* make, and the writes of the two differ.
C2_NonDefaultFieldIsWritten ==
    (BothDone /\ AddedField /\ ~IsDefault(rhsT.t1, rhs.two)) =>
        /\ \E i \in DOMAIN rhsState :
               /\ IsPrefix(AddrOfTwo, rhsState[i].addr)
               /\ \A j \in DOMAIN lhsState : lhsState[j] # rhsState[i]
        /\ Writes(lhsState) # Writes(rhsState)

C2_Witness ==
    /\ BothDone /\ AddedField
    /\ rhsT.t1.k = "bool" /\ rhs.two = TRUE /\ rhs.one = TRUE
    /\ Len(rhsState) = 2 /\ Len(lhsState) = 1

\* C3: a number representable in two integer types (signed or unsigned, of
\* different width, the signed minimum of the narrower type included) makes
\* the same writes in both, alone and as the items of a Vec.
C3_WidthIndependence ==
    /\ (BothDone /\ lhsT.k = "int" /\ rhsT.k = "int" /\ lhs = rhs)
           => lhsState = rhsState
    /\ (BothDone /\ lhsT.k = "vec" /\ rhsT.k = "vec" /\ lhsT.of.k = "int"
            /\ rhsT.of.k = "int" /\ lhs = rhs)
           => lhsState = rhsState

C3_Witness ==
    /\ BothDone /\ lhsT = I8 /\ rhsT = I16 /\ lhs = -128 /\ rhs = -128
    /\ Len(lhsState) = 2 /\ lhsState[2].bytes = <<128>>
    /\ lhsState = rhsState

\* rhs is lhs followed by one or more default items
TrailingDefaults ==
    /\ lhsT.k = "vec" /\ rhsT = lhsT
    /\ Len(rhs) > Len(lhs)
    /\ SubSeq(rhs, 1, Len(lhs)) = lhs
    /\ \A i \in (Len(lhs) + 1)..Len(rhs) : IsDefault(rhsT.of, rhs[i])

\* C4: a sequence and the same sequence followed by default items make
\* different writes: the last write of the longer one is its length, at the
\* address of the sequence itself, and the shorter one does not make it.
C4_TrailingDefaultsDiffer ==
    (BothDone /\ TrailingDefaults) =>
        /\ rhsState # <<>>
        /\ rhsState[Len(rhsState)] =
               [addr |-> root.hasher, bytes |-> trim_zeros(to_le_bytes(Len(rhs), 8))]
        /\ \A j \in DOMAIN lhsState : lhsState[j] # rhsState[Len(rhsState)]
        /\ Writes(lhsState) # Writes(rhsState)

C4_Witness ==
    /\ BothDone /\ TrailingDefaults
    /\ lhsT = TVec(U8) /\ lhs = <<1, 1>> /\ rhs = <<1, 1, 0>>
    /\ Len(lhsState) = 3 /\ Len(rhsState) = 3

\* C5: an Option writes its flag (is_some, a bool) at the child address got
\* from next_child, and then the value at the address of the Option itself.
\* So None makes no write, Some(d) with a default d makes the flag write
\* only, and the two differ.
C5_OptionFlag ==
    (lhsDone /\ lhsT.k = "opt") =>
        /\ lhs = <<>> => lhsState = <<>>
        /\ lhs # <<>> =>
               /\ lhsState # <<>>
               /\ lhsState[1] =
                      [addr |-> root.hasher \o write_varint(root.child), bytes |-> <<>>]
               /\ Tail(lhsState) =
                      StableHash(lhsT.of, lhs[1],
                                 [hasher |-> root.hasher, child |-> U64FromNat(2)], new)
               /\ IsDefault(lhsT.of, lhs[1]) => Len(lhsState) = 1

C5_Witness ==
    /\ BothDone /\ lhsT = TOpt(I8) /\ lhs = <<0>> /\ rhs = <<>>
    /\ Len(lhsState) = 1 /\ rhsState = <<>>

\* C6: two different values of one schema make different collections of
\* (address, payload) writes.
C6_InjectiveWithinSchema ==
    (BothDone /\ lhsT = rhsT /\ lhs # rhs) => Writes(lhsState) # Writes(rhsState)

C6_Witness ==
    /\ BothDone /\ lhsT = TVec(U8) /\ rhsT = TVec(U8)
    /\ lhs = <<1, 0, 1>> /\ rhs = <<0, 1, 1>>
    /\ Len(lhsState) = 3 /\ Len(rhsState) = 3

(***************************************************************************)
(* The fast backend.  FldMix (fast/fld.rs) is a vector of three 64-bit     *)
(* lanes, 24 bytes, combined lane by lane modulo 2^64.                     *)
(***************************************************************************)
FldMixNew == <<U64Zero, U64Zero, U64Zero>>

FldMixMixin(self, other) ==
    <<U64Add(self[1], other[1]).val, U64Add(self[2], other[2]).val,
      U64Add(self[3], other[3]).val>>

FldMixUnmix(self, other) ==
    <<U64WrappingSub(self[1], other[1]), U64WrappingSub(self[2], other[2]),
      U64WrappingSub(self[3], other[3])>>

\* FldMix::mix(value, seed): the two halves of the 128-bit hash and the
\* position tag, each into its lane
FldMixMix(self, value, seed) == FldMixMixin(self, <<value.lo, value.hi, seed>>)

FldMixToBytes(self) ==
    U64ToLeBytes(self[1]) \o U64ToLeBytes(self[2]) \o U64ToLeBytes(self[3])

FldMixFromBytes(bytes) ==
    <<U64FromLeBytes(SubSeq(bytes, 1, 8)), U64FromLeBytes(SubSeq(bytes, 9, 16)),
      U64FromLeBytes(SubSeq(bytes, 17, 24))>>

RECURSIVE SumBytes(_)
SumBytes(bytes) ==
    IF bytes = <<>> THEN 0 ELSE (Head(bytes) + 31 * SumBytes(Tail(bytes))) % LimbBase

\* xxh3_128_with_seed(bytes, seed): a fixed function of the bytes and the
\* seed, standing for the library's
xxh3_128_with_seed(bytes, seed) ==
    [lo |-> U64Add(U64FromNat(SumBytes(bytes) + 1), seed).val,
     hi |-> U64Add(<<Len(bytes) + 7, 0, 0, 1>>, seed).val]

\* FastStableHasher::new
FastNew == [mixer |-> FldMixNew, count |-> U64Zero]

\* mutant: the count of the argument replaces the count of self
FastMixin_AssignsCount(self, other, checks) ==
    [panic |-> FALSE,
     self |-> [mixer |-> FldMixMixin(self.mixer, other.mixer), count |-> other.count],
     other |-> other]

\* FastStableHasher::mixin(&mut self, other: &Self): self and other after the
\* call.  `self.count += other.count` aborts on overflow in a build with
\* overflow checks and wraps in one without.
FastMixin(self, other, checks) ==
    LET sum == U64Add(self.count, other.count)
    IN  [panic |-> checks /\ sum.overflow,
         self |-> [mixer |-> FldMixMixin(self.mixer, other.mixer), count |-> sum.val],
         other |-> other]

\* unmix: the lanes and the count of other subtracted, modulo 2^64
FastUnmix(self, other) ==
    [mixer |-> FldMixUnmix(self.mixer, other.mixer),
     count |-> U64WrappingSub(self.count, other.count)]

\* mutant: the count is stored big-endian
FastToBytes_BigEndianCount(self) ==
    LET le == U64ToLeBytes(self.count)
    IN  FldMixToBytes(self.mixer) \o [i \in 1..8 |-> le[9 - i]]

\* FastStableHasher::to_bytes: bytes[0..24] the mixer, bytes[24..32] the count
FastToBytes(self) == FldMixToBytes(self.mixer) \o U64ToLeBytes(self.count)

\* FastStableHasher::from_bytes
FastFromBytes(bytes) ==
    [mixer |-> FldMixFromBytes(SubSeq(bytes, 1, 24)),
     count |-> U64FromLeBytes(SubSeq(bytes, 25, 32))]

\* FastStableHasher::write: the address is a u128, its low half the seed of
\* the hash and its high half the position tag of the mix
FastWrite(self, field_address, bytes, checks) ==
    LET hash == xxh3_128_with_seed(bytes, field_address.lo)
        sum == U64Add(self.count, U64One)
    IN  [panic |-> checks /\ sum.overflow,
         self |-> [mixer |-> FldMixMix(self.mixer, hash, field_address.hi),
                   count |-> sum.val]]

(***************************************************************************)
(* Three fast hashers under new, write, mixin, unmix, to_bytes and         *)
(* from_bytes.                                                             *)
(***************************************************************************)
Names == {"a", "b", "c"}

\* addresses (u128) and payloads written
FastWrites ==
    {[addr |-> [lo |-> U64FromNat(17), hi |-> U64Zero], bytes |-> <<>>],
     [addr |-> [lo |-> U64FromNat(3), hi |-> U64One], bytes |-> <<1>>]}

\* bytes a hasher was persisted as by an earlier process: from_bytes takes any
\* 32 bytes.  Counts 2^64 - 1, 2^64 - 2, 2^63, and 0x0807060504030201.
PersistedSamples ==
    {[i \in 1..32 |-> IF i > 24 THEN 255 ELSE 0],
     [i \in 1..32 |-> IF i = 25 THEN 254 ELSE IF i > 25 THEN 255 ELSE IF i = 1 THEN 9 ELSE 0],
     [i \in 1..32 |-> IF i = 32 THEN 128 ELSE 0],
     [i \in 1..32 |-> IF i > 24 THEN i - 24 ELSE i % 5]}

NoNet == [b |-> 0, c |-> 0]

InitFast ==
    /\ overflow_checks \in BOOLEAN
    /\ hashers = [n \in Names |-> FastNew]
    /\ stored \in PersistedSamples
    /\ panicked = FALSE
    /\ base = FastNew
    /\ net = NoNet
    /\ last = [op |-> "none"]
    /\ nops = 0
    /\ IdleEnc /\ IdleSeq

CanStep == ~panicked /\ nops < MaxOps

\* x.write(address, bytes)
Write(x, field_address, bytes) ==
    LET r == FastWrite(hashers[x], field_address, bytes, overflow_checks)
    IN  /\ CanStep
        /\ panicked' = r.panic
        /\ hashers' = IF r.panic THEN hashers ELSE [hashers EXCEPT ![x] = r.self]
        /\ base' = hashers'.a
        /\ net' = NoNet
        /\ last' = [op |-> "write"]
        /\ nops' = nops + 1
        /\ UNCHANGED <<overflow_checks, stored>>
        /\ UNCHANGED <<encVars, seqVars>>

\* stored = x.to_bytes()
Persist(x) ==
    /\ CanStep
    /\ stored' = FastToBytes(hashers[x])
    /\ last' = [op |-> "persist", arg |-> x]
    /\ nops' = nops + 1
    /\ UNCHANGED <<overflow_checks, hashers, panicked, base, net>>
    /\ UNCHANGED <<encVars, seqVars>>

\* x = FastStableHasher::from_bytes(stored)
Restore(x) ==
    /\ CanStep
    /\ hashers' = [hashers EXCEPT ![x] = FastFromBytes(stored)]
    /\ base' = hashers'.a
    /\ net' = NoNet
    /\ last' = [op |-> "restore"]
    /\ nops' = nops + 1
    /\ UNCHANGED <<overflow_checks, stored, panicked>>
    /\ UNCHANGED <<encVars, seqVars>>

\* a.mixin(&x)
Mixin(x) ==
    LET r == FastMixin(hashers.a, hashers[x], overflow_checks)
    IN  /\ CanStep
        /\ panicked' = r.panic
        /\ hashers' = IF r.panic THEN hashers
                      ELSE [hashers EXCEPT !.a = r.self, ![x] = r.other]
        /\ net' = [net EXCEPT ![x] = @ + 1]
        /\ last' = [op |-> "mixin", arg |-> x, before |-> hashers[x]]
        /\ nops' = nops + 1
        /\ UNCHANGED <<overflow_checks, stored, base>>
        /\ UNCHANGED <<encVars, seqVars>>

\* a.unmix(&x)
Unmix(x) ==
    /\ CanStep
    /\ hashers' = [hashers EXCEPT !.a = FastUnmix(hashers.a, hashers[x])]
    /\ net' = [net EXCEPT ![x] = @ - 1]
    /\ last' = [op |-> "unmix", arg |-> x, before |-> hashers[x]]
    /\ nops' = nops + 1
    /\ UNCHANGED <<overflow_checks, stored, panicked, base>>
    /\ UNCHANGED <<encVars, seqVars>>

NextFast ==
    \/ \E x \in Names, w \in FastWrites : Write(x, w.addr, w.bytes)
    \/ \E x \in Names : Persist(x)
    \/ \E x \in Names : Restore(x)
    \/ \E x \in {"b", "c"} : Mixin(x)
    \/ \E x \in {"b", "c"} : Unmix(x)

SpecFast == InitFast /\ [][NextFast]_vars

(***************************************************************************)
(* Claims about the fast backend, under SpecFast.                          *)
(***************************************************************************)
\* self with other mixed in n times (n > 0) or unmixed -n times (n < 0), in
\* the group: modulo 2^64, without the build's overflow checks
RECURSIVE Times(_, _, _)
Times(self, other, n) ==
    IF n = 0 THEN self
    ELSE IF n > 0 THEN Times(FastMixin(self, other, FALSE).self, other, n - 1)
    ELSE Times(FastUnmix(self, other), other, n + 1)

\* the net effect of the mixin and unmix calls made on "a" since `base`
NetEffect == Times(Times(base, hashers.b, net.b), hashers.c, net.c)

\* C7: unmix is the exact inverse of mixin, and after any sequence of mixin
\* and unmix calls, in any order, the hasher (accumulator and count) is the
\* one the net effect of the calls gives.
C7_MixUnmixNetEffect ==
    last.op \in {"mixin", "unmix"} => (~panicked /\ hashers.a = NetEffect)

\* what C7 states, in a build without overflow checks
C7_InReleaseBuild ==
    (last.op \in {"mixin", "unmix"} /\ ~overflow_checks) =>
        (~panicked /\ hashers.a = NetEffect)

\* the result of a call that may abort: the state after it, or the abort
Outcome(r) == IF r.panic THEN [panic |-> TRUE] ELSE [panic |-> FALSE, self |-> r.self]

\* x.mixin(&y); x.mixin(&z)
MixinTwice(x, y, z, checks) ==
    LET r == FastMixin(x, y, checks)
    IN  IF r.panic THEN Outcome(r) ELSE Outcome(FastMixin(r.self, z, checks))

\* y.mixin(&z); x.mixin(&y)
MixinGrouped(x, y, z, checks) ==
    LET r == FastMixin(y, z, checks)
    IN  IF r.panic THEN Outcome(r) ELSE Outcome(FastMixin(x, r.self, checks))

\* C8: mixin is commutative and associative on the whole state (mixer and
\* count), a hasher from new() is its identity, and mixin leaves its
\* argument as it was.  A call that aborts in one order aborts in the other.
C8_MixinCommutativeAssociative ==
    LET ha == hashers.a
        hb == hashers.b
        hc == hashers.c
    IN  /\ MixinTwice(ha, hb, hc, overflow_checks) = MixinTwice(ha, hc, hb, overflow_checks)
        /\ MixinTwice(hb, ha, hc, overflow_checks) = MixinTwice(hb, hc, ha, overflow_checks)
        /\ MixinGrouped(ha, hb, hc, overflow_checks) = MixinTwice(ha, hb, hc, overflow_checks)
        /\ MixinGrouped(hc, ha, hb, overflow_checks) = MixinTwice(hc, ha, hb, overflow_checks)
        /\ \A x \in Names :
               /\ Outcome(FastMixin(hashers[x], FastNew, overflow_checks))
                      = [panic |-> FALSE, self |-> hashers[x]]
               /\ Outcome(FastMixin(FastNew, hashers[x], overflow_checks))
                      = [panic |-> FALSE, self |-> hashers[x]]
        /\ FastMixin(ha, hb, overflow_checks).other = hb
        /\ (last.op = "mixin" /\ ~panicked) => hashers[last.arg] = last.before

\* three written hashers, the two arguments different, mixed without abort
C8_Witness ==
    /\ hashers.a # hashers.b /\ hashers.b # hashers.c
    /\ \A x \in Names : hashers[x] # FastNew
    /\ ~MixinTwice(hashers.a, hashers.b, hashers.c, overflow_checks).panic
    /\ MixinTwice(hashers.a, hashers.b, hashers.c, overflow_checks).self.count = U64FromNat(3)

\* byte k (from 0) of a 64-bit count, little-endian
CountByte(count, k) ==
    IF k % 2 = 0 THEN count[(k \div 2) + 1] % 256 ELSE count[(k \div 2) + 1] \div 256

\* C9: from_bytes(to_bytes(h)) = h for every hasher reached, and to_bytes(h)
\* is 32 bytes: the 24 bytes of the mixer, then the count in 8 bytes,
\* little-endian.
C9_BytesRoundTrip ==
    /\ \A x \in Names :
           LET bytes == FastToBytes(hashers[x])
           IN  /\ Len(bytes) = 32
               /\ SubSeq(bytes, 1, 24) = FldMixToBytes(hashers[x].mixer)
               /\ \A k \in 0..7 : bytes[25 + k] = CountByte(hashers[x].count, k)
               /\ \A i \in 1..32 : bytes[i] \in 0..255
               /\ FastFromBytes(bytes) = hashers[x]
    /\ last.op = "persist" => FastFromBytes(stored) = hashers[last.arg]

C9_Witness ==
    /\ last.op = "persist" /\ last.arg = "a"
    /\ hashers.a.count = U64FromNat(2)
    /\ hashers.a.mixer # FldMixNew
    /\ FastFromBytes(stored) = hashers.a

(***************************************************************************)
(* Claims about the unordered aggregation, under SpecUnordered.            *)
(***************************************************************************)
\* C10: the writes made for a HashSet or HashMap do not depend on the order
\* its members are iterated in: hashing any permutation of the members
\* leaves the outer hasher in the same state.
C10_IterationOrderIndependent ==
    (BothDone /\ lhsT.k \in {"set", "map"} /\ lhsT = rhsT
        /\ SeqToBag(lhs) = SeqToBag(rhs))
        => lhsState = rhsState

C10_Witness ==
    /\ BothDone /\ lhsT = TMap(TStr, U8)
    /\ lhs = <<<<<<97>>, 1>>, <<<<98>>, 2>>, <<<<98>>, 0>>>>
    /\ rhs = <<<<<<98>>, 0>>, <<<<97>>, 1>>, <<<<98>>, 2>>>>
    /\ lhsState = rhsState
    /\ Len(lhsState) = 2
    /\ BagCardinality(lhsState[1].rollup) = 3

\* the collections are maps of two members with different keys and different
\* values, and rhs is lhs with the two values exchanged
ValuesSwapped ==
    /\ lhsT.k = "map" /\ rhsT = lhsT
    /\ Len(lhs) = 2 /\ Len(rhs) = 2
    /\ lhs[1][1] # lhs[2][1] /\ lhs[1][2] # lhs[2][2]
    /\ rhs[1] = <<lhs[1][1], lhs[2][2]>>
    /\ rhs[2] = <<lhs[2][1], lhs[1][2]>>

\* C11: the maps {(a,1),(b,2)} and {(b,1),(a,2)}, a # b, hash differently,
\* although every member is hashed at the same member address: the rollup
\* written to the outer hasher differs.
C11_SwapHashesDifferently ==
    (BothDone /\ ValuesSwapped) =>
        /\ lhsState # rhsState
        /\ lhsState[1].rollup # rhsState[1].rollup

C11_Witness ==
    /\ BothDone /\ ValuesSwapped
    /\ lhs = <<<<<<97>>, 1>>, <<<<98>>, 2>>>>
    /\ rhs = <<<<<<97>>, 2>>, <<<<98>>, 1>>>>
    /\ lhsState[1].addr = rhsState[1].addr
    /\ lhsState # rhsState

\* C12: a collection in which a member occurs twice and the collection with
\* one of the two occurrences dropped make different writes to the outer
\* hasher.
C12_MultiplicitySensitive ==
    (BothDone /\ lhsT.k \in {"set", "map"} /\ rhsT = lhsT
        /\ \E i \in DOMAIN lhs, j \in DOMAIN lhs :
               /\ i # j /\ lhs[i] = lhs[j]
               /\ rhs = SubSeq(lhs, 1, i - 1) \o SubSeq(lhs, i + 1, Len(lhs)))
        => Writes(lhsState) # Writes(rhsState)

C12_Witness ==
    /\ BothDone /\ lhsT = TSet(U8)
    /\ lhs = <<2, 2>> /\ rhs = <<2>>
    /\ ~IsDefault(U8, 2)
    /\ Writes(lhsState) # Writes(rhsState)

\* the address of the count: the third child of the address of the collection
CountSeqNo == next_child(next_child(next_child(root).parent).parent).child

\* C13: once a HashSet or HashMap is hashed, the outer hasher holds a write
\* at the address of the count, also when the collection is empty.
C13_CountAlwaysWritten ==
    (lhsDone /\ lhsT.k \in {"set", "map"}) =>
        \E i \in DOMAIN lhsState : lhsState[i].addr = CountSeqNo.hasher

\* C13 for the collections that have a member
C13_CountWrittenWhenNotEmpty ==
    (lhsDone /\ lhsT.k \in {"set", "map"} /\ lhs # <<>>) =>
        \E i \in DOMAIN lhsState : lhsState[i].addr = CountSeqNo.hasher

(***************************************************************************)
(* The structural address of the cryptographic backend: one Blake3SeqNo    *)
(* taken from root() through next_child and skip, handed down to a child,  *)
(* and finished as the address of a leaf write.  usize is 64 bits.         *)
(***************************************************************************)
\* the counts skip is called with that are small
SmallSkips == {0, 1, 2}

\* the counts skip is called with: the small ones, 2^64 - 2 and 2^64 - 1
SkipCounts ==
    {U64FromNat(n) : n \in SmallSkips} \cup {U64WrappingSub(U64Max, U64One), U64Max}

\* the payloads of the leaf writes
Payloads == {<<>>, <<0>>, <<1>>}

InitSeq ==
    /\ overflow_checks \in BOOLEAN
    /\ hashers = <<>> /\ stored = <<>> /\ base = <<>> /\ net = <<>> /\ last = <<>>
    /\ panicked = FALSE
    /\ nops = 0
    /\ seq = root
    /\ path = <<>>
    /\ ordinals = <<>>
    /\ called = [op |-> "root"]
    /\ leaves = {}
    /\ IdleEnc

CanCall == ~panicked /\ nops < MaxSeqOps

\* let child = seq.next_child()
NextChild ==
    LET r == next_child(seq)
    IN  /\ CanCall
        /\ panicked' = r.panic
        /\ seq' = IF r.panic THEN seq ELSE r.parent
        /\ ordinals' = IF r.panic THEN ordinals ELSE Append(ordinals, seq.child)
        /\ called' = [op |-> "next_child", before |-> seq, count |-> U64One,
                      child |-> IF r.panic THEN <<>> ELSE r.child]
        /\ nops' = nops + 1
        /\ UNCHANGED <<path, leaves>>
        /\ UNCHANGED <<overflow_checks, hashers, stored, base, net, last>>
        /\ UNCHANGED encVars

\* seq.skip(count)
Skip(count) ==
    LET r == skip(seq, count, overflow_checks)
    IN  /\ CanCall
        /\ panicked' = r.panic
        /\ seq' = IF r.panic THEN seq ELSE r.self
        /\ called' = [op |-> "skip", before |-> seq, count |-> count]
        /\ nops' = nops + 1
        /\ UNCHANGED <<path, ordinals, leaves>>
        /\ UNCHANGED <<overflow_checks, hashers, stored, base, net, last>>
        /\ UNCHANGED encVars

\* value.stable_hash(child, state): the child next_child has just returned is
\* the address of the value hashed next
Descend ==
    /\ CanCall
    /\ called.op = "next_child"
    /\ seq' = called.child
    /\ path' = Append(path, called.before.child)
    /\ ordinals' = <<>>
    /\ called' = [op |-> "stable_hash"]
    /\ nops' = nops + 1
    /\ UNCHANGED leaves
    /\ UNCHANGED <<overflow_checks, hashers, stored, panicked, base, net, last>>
    /\ UNCHANGED encVars

\* seq.clone().finish(payload): a leaf write at the address
Finish(payload) ==
    /\ CanCall
    /\ Cardinality(leaves) < MaxLeaves
    /\ leaves' = leaves \cup {[path |-> path, payload |-> payload,
                               bytes |-> Blake3SeqNoFinish(seq, payload)]}
    /\ called' = [op |-> "finish"]
    /\ nops' = nops + 1
    /\ UNCHANGED <<seq, path, ordinals>>
    /\ UNCHANGED <<overflow_checks, hashers, stored, panicked, base, net, last>>
    /\ UNCHANGED encVars

NextSeq ==
    \/ NextChild
    \/ \E count \in SkipCounts : Skip(count)
    \/ Descend
    \/ \E payload \in Payloads : Finish(payload)

SpecSeq == InitSeq /\ [][NextSeq]_vars

(***************************************************************************)
(* Claims about Blake3SeqNo, under SpecSeq.                                *)
(***************************************************************************)
\* what C14 states of the address and of the last call
ChildOrdinals ==
    /\ seq.child # U64Zero
    /\ (called.op = "next_child" /\ ~panicked) =>
           /\ called.child.hasher = called.before.hasher \o write_varint(called.before.child)
           /\ called.child.child = U64One
           /\ seq.hasher = called.before.hasher
           /\ ~U64Add(called.before.child, U64One).overflow
           /\ seq.child = U64Add(called.before.child, U64One).val
    /\ \A i \in DOMAIN ordinals : \A j \in DOMAIN ordinals :
           i < j => U64Less(ordinals[i], ordinals[j])

\* C14: the counter of a Blake3SeqNo is at least 1; next_child feeds the
\* counter into a clone of the context, returns a child of counter 1 and
\* raises the counter by exactly 1; the ordinals of the children of one
\* parent are strictly increasing, so no two of them are the same.
C14_ChildOrdinals == ChildOrdinals

\* what C14 states, in a build with overflow checks
C14_WithOverflowChecks == overflow_checks => ChildOrdinals

\* a.skip(n) and then a.next_child(): the child returned and the parent left
SkipThenChild(a, n, checks) ==
    LET r == skip(a, U64FromNat(n), checks)
        c == next_child(r.self)
    IN  IF r.panic \/ c.panic THEN [panic |-> TRUE]
        ELSE [panic |-> FALSE, child |-> c.child, parent |-> c.parent]

\* n times a.next_child() with the child discarded, and then a.next_child()
RECURSIVE ChildrenThenChild(_, _)
ChildrenThenChild(a, n) ==
    LET c == next_child(a)
    IN  IF c.panic THEN [panic |-> TRUE]
        ELSE IF n = 0 THEN [panic |-> FALSE, child |-> c.child, parent |-> c.parent]
        ELSE ChildrenThenChild(c.parent, n - 1)

\* what C15 states of the last call
SkipIsDiscardedChildren ==
    called.op = "skip" =>
        /\ ~panicked =>
               /\ seq.hasher = called.before.hasher
               /\ ~U64Add(called.before.child, called.count).overflow
               /\ seq.child = U64Add(called.before.child, called.count).val
               /\ called.count = U64Zero => seq = called.before
        /\ \A n \in SmallSkips :
               called.count = U64FromNat(n) =>
                   SkipThenChild(called.before, n, overflow_checks)
                       = ChildrenThenChild(called.before, n)

\* C15: skip(n) raises the counter by exactly n and feeds nothing; skip(n)
\* and then next_child gives what n discarded next_child and then next_child
\* give; skip(0) leaves the address as it was.
C15_SkipIsDiscardedChildren == SkipIsDiscardedChildren

\* what C15 states, in a build with overflow checks
C15_WithOverflowChecks == overflow_checks => SkipIsDiscardedChildren

\* the LEB128 encodings of the ordinals of a path, one after the other
RECURSIVE PathBytes(_)
PathBytes(p) ==
    IF p = <<>> THEN <<>> ELSE write_varint(Head(p)) \o PathBytes(Tail(p))

\* C16: the bytes hashed for a leaf write are the LEB128 encodings of the
\* ordinals on its path, the marker byte 0, and the payload; every ordinal
\* is at least 1 and its encoding does not start with 0; two leaf writes
\* that differ in path or payload hash different bytes.
C16_LeafStreamInjective ==
    /\ \A l \in leaves :
           /\ l.bytes = PathBytes(l.path) \o <<0>> \o l.payload
           /\ \A i \in DOMAIN l.path :
                  l.path[i] # U64Zero /\ write_varint(l.path[i])[1] # 0
    /\ \A l1 \in leaves : \A l2 \in leaves :
           (l1.path # l2.path \/ l1.payload # l2.payload) => l1.bytes # l2.bytes

C16_Witness ==
    /\ [path |-> <<>>, payload |-> <<1>>, bytes |-> <<0, 1>>] \in leaves
    /\ [path |-> <<U64One>>, payload |-> <<>>, bytes |-> <<1, 0>>] \in leaves

\* what C17 states of the last call
OverflowAborts ==
    called.op \in {"next_child", "skip"} =>
        LET sum == U64Add(called.before.child, called.count)
        IN  /\ sum.overflow => panicked
            /\ ~panicked =>
                   /\ seq.child = sum.val
                   /\ ~U64Less(seq.child, called.before.child)

\* C17: a next_child or skip(n) that would raise the counter past the largest
\* usize aborts; after a call that returns the counter is the old one plus 1
\* or plus n, not wrapped, and not less than it was.
C17_OverflowAborts == OverflowAborts

\* what C17 states of next_child alone
C17_NextChildAborts == called.op = "next_child" => OverflowAborts

\* what C17 states, in a build with overflow checks
C17_WithOverflowChecks == overflow_checks => OverflowAborts

=============================================================================
